---- MODULE Spec2Model ----
(***************************************************************************)
(* A model of ApplyPatch.ts: the patch parser (parsePatch, parseOneHunk,   *)
(* parseUpdateFileChunk), the line matcher (seekSequence), the per-file    *)
(* update (applyUpdateChunks) and the applier (applyPatch).                *)
(*                                                                         *)
(* A JavaScript string is modelled as a sequence of one-character strings, *)
(* so that trim, startsWith, substring, split and join are computed        *)
(* rather than assumed.  Indices are the source's 0-based indices; the     *)
(* element at JavaScript index i of a sequence s is s[i + 1].              *)
(***************************************************************************)
EXTENDS Integers, Sequences, FiniteSets, TLC

VARIABLES
    \* ---- seekSequence, called on its own (SpecSeek)
    haystack,       \* lines
    needle,         \* pattern
    fromIndex,      \* start
    found,          \* the value returned
    seekPc,         \* "call" | "returned"
    \* ---- one run of applyUpdateChunks, one loop iteration per step (SpecUpdate)
    content,        \* the text readFile returns
    lines,          \* the line buffer
    origLines,      \* the line buffer as it was when the chunk loop started
    spliced,        \* the line buffer as the splice loop leaves it
    searchStart,    \* the search cursor
    replacements,   \* the queue of { start, length, newLines }
    matched,        \* the spans of the chunks that went through seekSequence, in chunk order
    nChunks,        \* chunks processed so far
    updPc,          \* "read" | "chunks" | "done" | "error"
    updOut,         \* the string returned, or the error thrown
    \* ---- the same one-chunk update applied twice to one file (SpecRepeat)
    repContent,     \* the text of the file before the first application
    repChunk,       \* the chunk of the update
    repFirst,       \* what the first applyUpdateChunks returned or threw
    repSecond,      \* what the second one, on the file the first wrote, returned or threw
    repPc,          \* "first" | "second" | "done" | "failed"
    \* ---- parsePatch, one parser call or loop iteration per step (SpecParse)
    patch,          \* the patch text
    pLines,         \* patch.trim().split('\n')
    pIndex,         \* i of parsePatch
    hunks,          \* the hunks parsed so far
    pPc,            \* "start" | "envelope" | "update" | "done" | "error"
    pErr,           \* the error thrown
    uStart,         \* startIndex of the parseOneHunk call that is in its update loop
    uPath,          \* filePath of that call
    uMove,          \* movePath of that call
    uChunks,        \* chunks of that call
    uIndex,         \* i of that call
    \* ---- applyPatch on parsed hunks, one hunk per step (SpecApply)
    fs,             \* the files: path -> text, or NoFile
    fsStart,        \* the files as they were when applyPatch was called
    fsBefore,       \* the files as they were before the last hunk handled with success
    ops,            \* the hunks parsePatch returned
    nDone,          \* hunks handled with success so far
    affectedFiles,  \* the status list
    appPc,          \* "run" | "done" | "failed"
    appErr          \* the error thrown

seekVars == <<haystack, needle, fromIndex, found, seekPc>>
updVars  == <<content, lines, origLines, spliced, searchStart, replacements, matched,
              nChunks, updPc, updOut>>
repVars  == <<repContent, repChunk, repFirst, repSecond, repPc>>
parseVars == <<patch, pLines, pIndex, hunks, pPc, pErr,
               uStart, uPath, uMove, uChunks, uIndex>>
appVars  == <<fs, fsStart, fsBefore, ops, nDone, affectedFiles, appPc, appErr>>
vars     == <<seekVars, updVars, repVars, parseVars, appVars>>

\* What the steps of one specification leave alone.
notSeek  == <<updVars, repVars, parseVars, appVars>>
notUpd   == <<seekVars, repVars, parseVars, appVars>>
notRep   == <<seekVars, updVars, parseVars, appVars>>
notParse == <<seekVars, updVars, repVars, appVars>>
notApp   == <<seekVars, updVars, repVars, parseVars>>

(***************************************************************************)
(* Bounds of the model.                                                    *)
(***************************************************************************)
MaxFileLines == 2      \* elements of content.split('\n') of a modelled file
MaxChunks    == 2      \* chunks of one modelled update

(***************************************************************************)
(* Strings.                                                                *)
(***************************************************************************)
NL == "\n"

\* The characters String.prototype.trim removes that the model's texts hold.
IsWhitespace(c) == c \in {" ", "\t", NL, "\r"}

RECURSIVE TrimStart(_)
TrimStart(s) ==
    IF Len(s) > 0 /\ IsWhitespace(s[1]) THEN TrimStart(Tail(s)) ELSE s

RECURSIVE TrimEnd(_)
TrimEnd(s) ==
    IF Len(s) > 0 /\ IsWhitespace(s[Len(s)])
    THEN TrimEnd(SubSeq(s, 1, Len(s) - 1))
    ELSE s

\* s.trim()
Trim(s) == TrimEnd(TrimStart(s))

\* s.startsWith(p)
StartsWith(s, p) == Len(s) >= Len(p) /\ SubSeq(s, 1, Len(p)) = p

\* s.substring(n), 0 <= n
Substring(s, n) == SubSeq(s, n + 1, Len(s))

\* text.split('\n'): always at least one element
RECURSIVE Split(_)
Split(text) ==
    IF \A k \in 1..Len(text) : text[k] # NL
    THEN <<text>>
    ELSE LET k == CHOOSE k \in 1..Len(text) :
                      text[k] = NL /\ \A m \in 1..(k - 1) : text[m] # NL
         IN  <<SubSeq(text, 1, k - 1)>> \o Split(SubSeq(text, k + 1, Len(text)))

\* ls.join('\n')
RECURSIVE Join(_)
Join(ls) ==
    IF Len(ls) = 0 THEN <<>>
    ELSE IF Len(ls) = 1 THEN ls[1]
    ELSE ls[1] \o <<NL>> \o Join(Tail(ls))

\* The sequences over S of length at most n.
SeqsUpTo(S, n) == UNION {[1..k -> S] : k \in 0..n}

(***************************************************************************)
(* seekSequence                                                            *)
(***************************************************************************)
\* The value null of "number | null".
Null == -1

\* The exact pass at position i: lines[i + j] !== pattern[j] for no j.
ExactAt(ls, pattern, i) ==
    \A j \in 0..(Len(pattern) - 1) : ls[i + j + 1] = pattern[j + 1]

\* A matcher without the whitespace-tolerant pass.
TrimmedAtExactOnly(ls, pattern, i) ==
    \A j \in 0..(Len(pattern) - 1) : ls[i + j + 1] = pattern[j + 1]

\* The trimmed pass at position i.
TrimmedAt(ls, pattern, i) ==
    \A j \in 0..(Len(pattern) - 1) : Trim(ls[i + j + 1]) = Trim(pattern[j + 1])

\* The for loop of seekSequence from candidate position i on.
RECURSIVE seekLoop(_, _, _)
seekLoop(ls, pattern, i) ==
    IF ~(i <= Len(ls) - Len(pattern)) THEN Null
    ELSE IF ExactAt(ls, pattern, i) THEN i
    ELSE IF TrimmedAt(ls, pattern, i) THEN i
    ELSE seekLoop(ls, pattern, i + 1)

seekSequence(ls, pattern, start) ==
    IF Len(pattern) = 0 THEN start
    ELSE IF Len(pattern) > Len(ls) THEN Null
    ELSE seekLoop(ls, pattern, start)

(***************************************************************************)
(* applyUpdateChunks                                                       *)
(***************************************************************************)
\* An optional value: <<>> is undefined, <<v>> is v.
None    == <<>>
Some(v) == <<v>>

\* if (chunk.changeContext): undefined and '' are falsy.
Truthy(opt) == Len(opt) = 1 /\ Len(opt[1]) > 0

\* content.split('\n'), with one trailing empty line removed.
readLines(text) ==
    LET ls == Split(text)
    IN  IF ls[Len(ls)] = <<>> THEN SubSeq(ls, 1, Len(ls) - 1) ELSE ls

\* A context hint looked for from the top of the file instead of from the cursor.
afterContextFromTop(ls, chunk, start) ==
    IF Truthy(chunk.changeContext)
    THEN LET contextIndex == seekSequence(ls, <<chunk.changeContext[1]>>, 0)
         IN  IF contextIndex # Null THEN contextIndex + 1 ELSE start
    ELSE start

\* The cursor after the context hint of a chunk has been looked for.
afterContext(ls, chunk, start) ==
    IF Truthy(chunk.changeContext)
    THEN LET contextIndex == seekSequence(ls, <<chunk.changeContext[1]>>, start)
         IN  IF contextIndex # Null THEN contextIndex + 1 ELSE start
    ELSE start

\* Handle end-of-file patterns: whether the trailing '' of the pattern is dropped.
dropsTrailing(chunk) ==
    /\ Len(chunk.oldLines) > 0
    /\ chunk.oldLines[Len(chunk.oldLines)] = <<>>
    /\ ~chunk.isEndOfFile

chunkPattern(chunk) ==
    IF dropsTrailing(chunk)
    THEN SubSeq(chunk.oldLines, 1, Len(chunk.oldLines) - 1)
    ELSE chunk.oldLines

\* Replacement lines that keep their trailing '' when the pattern loses its own.
chunkNewLinesUntrimmed(chunk) == chunk.newLines

chunkNewLines(chunk) ==
    IF /\ dropsTrailing(chunk)
       /\ Len(chunk.newLines) > 0
       /\ chunk.newLines[Len(chunk.newLines)] = <<>>
    THEN SubSeq(chunk.newLines, 1, Len(chunk.newLines) - 1)
    ELSE chunk.newLines

\* createError(`Failed to find expected lines:\n${pattern.join('\n')}`, 400)
FailedToFindPrefix ==
    <<"F","a","i","l","e","d"," ","t","o"," ","f","i","n","d"," ",
      "e","x","p","e","c","t","e","d"," ","l","i","n","e","s",":">>

\* No error thrown.
NoError == [kind |-> "none", message |-> <<>>]

matchError(pattern) ==
    [kind |-> "match", message |-> FailedToFindPrefix \o <<NL>> \o Join(pattern)]

\* One iteration of "for (const chunk of chunks)": the replacement pushed and the
\* cursor it leaves, or the error thrown.  isMatch tells a span seekSequence found
\* from a pure addition.
chunkStep(ls, start, chunk) ==
    LET hinted == afterContext(ls, chunk, start)
    IN  IF Len(chunk.oldLines) = 0
        THEN [ok |-> TRUE, searchStart |-> hinted, isMatch |-> FALSE,
              push |-> [start |-> Len(ls), length |-> 0, newLines |-> chunk.newLines]]
        ELSE LET pattern    == chunkPattern(chunk)
                 matchIndex == seekSequence(ls, pattern, hinted)
             IN  IF matchIndex = Null
                 THEN [ok |-> FALSE, error |-> matchError(pattern)]
                 ELSE [ok |-> TRUE, searchStart |-> matchIndex + Len(pattern),
                       isMatch |-> TRUE,
                       push |-> [start |-> matchIndex, length |-> Len(pattern),
                                 newLines |-> chunkNewLines(chunk)]]

\* sorted, with r placed behind every element whose start is not smaller.
insertDesc(sorted, r) ==
    LET p == Cardinality({k \in 1..Len(sorted) : sorted[k].start >= r.start})
    IN  SubSeq(sorted, 1, p) \o <<r>> \o SubSeq(sorted, p + 1, Len(sorted))

\* A sort by ascending start.
RECURSIVE sortDescAscending(_)
sortDescAscending(rs) ==
    IF Len(rs) <= 1 THEN rs
    ELSE LET sorted == sortDescAscending(SubSeq(rs, 1, Len(rs) - 1))
             r      == rs[Len(rs)]
             p      == Cardinality({k \in 1..Len(sorted) : sorted[k].start <= r.start})
         IN  SubSeq(sorted, 1, p) \o <<r>> \o SubSeq(sorted, p + 1, Len(sorted))

\* replacements.sort((a, b) => b.start - a.start): a stable sort, descending start.
RECURSIVE sortDesc(_)
sortDesc(rs) ==
    IF Len(rs) <= 1 THEN rs
    ELSE insertDesc(sortDesc(SubSeq(rs, 1, Len(rs) - 1)), rs[Len(rs)])

Min2(a, b) == IF a <= b THEN a ELSE b

\* lines.splice(start, length, ...newLines), for start, length >= 0.
splice(ls, start, length, newLines) ==
    LET s == Min2(start, Len(ls))
        d == Min2(length, Len(ls) - s)
    IN  SubSeq(ls, 1, s) \o newLines \o SubSeq(ls, s + d + 1, Len(ls))

\* for (const replacement of replacements) lines.splice(...)
RECURSIVE spliceAll(_, _)
spliceAll(ls, rs) ==
    IF Len(rs) = 0 THEN ls
    ELSE spliceAll(splice(ls, rs[1].start, rs[1].length, rs[1].newLines), Tail(rs))

\* A buffer written as the splices leave it.
ensureTrailingNever(ls) == ls

\* Ensure file ends with newline.
ensureTrailing(ls) ==
    IF Len(ls) > 0 /\ ls[Len(ls)] # <<>> THEN Append(ls, <<>>) ELSE ls

\* The chunk loop as a whole, from chunk k (1-based) on.
RECURSIVE chunkLoop(_, _, _, _, _)
chunkLoop(ls, chunks, k, start, rs) ==
    IF k > Len(chunks) THEN [ok |-> TRUE, replacements |-> rs]
    ELSE LET r == chunkStep(ls, start, chunks[k])
         IN  IF ~r.ok THEN r
             ELSE chunkLoop(ls, chunks, k + 1, r.searchStart, Append(rs, r.push))

\* applyUpdateChunks on the text read from the file: the string returned, or the
\* error thrown.
applyUpdateChunks(text, chunks) ==
    LET ls == readLines(text)
        r  == chunkLoop(ls, chunks, 1, 0, <<>>)
    IN  IF ~r.ok THEN r
        ELSE [ok |-> TRUE,
              text |-> Join(ensureTrailing(spliceAll(ls, sortDesc(r.replacements))))]

(***************************************************************************)
(* Inputs of the line matcher and of the update.                           *)
(***************************************************************************)
\* Lines a modelled file is made of.
FileLine == {<<"a">>, <<"b">>, <<" ", "a">>, <<>>}

\* The texts of the modelled files: their lines joined by newlines.  A last
\* line '' gives the text its final newline.
FileText == {Join(ls) : ls \in SeqsUpTo(FileLine, MaxFileLines)}

\* oldLines and newLines of the modelled chunks.
OldLines ==
    {<<>>, <<<<"a">>>>, <<<<"b">>>>, <<<<>>>>, <<<<"a">>, <<>>>>}
NewLines ==
    {<<>>, <<<<"b">>>>, <<<<"b">>, <<>>>>, <<<<"a">>, <<"b">>>>}

Chunk ==
    [changeContext : {None, Some(<<"a">>)},
     oldLines      : OldLines,
     newLines      : NewLines,
     isEndOfFile   : BOOLEAN]

\* Patterns handed to seekSequence on its own.
Pattern ==
    SeqsUpTo({<<"a">>, <<"a", " ">>, <<"b">>}, 2)

(***************************************************************************)
(* SpecSeek: seekSequence on every input of the bounded sets.              *)
(***************************************************************************)
SeekIdle ==
    /\ haystack = <<>>
    /\ needle = <<>>
    /\ fromIndex = 0
    /\ found = Null
    /\ seekPc = "idle"

UpdateIdle ==
    /\ content = <<>>
    /\ lines = <<>>
    /\ origLines = <<>>
    /\ spliced = <<>>
    /\ searchStart = 0
    /\ replacements = <<>>
    /\ matched = <<>>
    /\ nChunks = 0
    /\ updPc = "idle"
    /\ updOut = <<>>

NoChunk == [changeContext |-> None, oldLines |-> <<>>, newLines |-> <<>>,
            isEndOfFile |-> FALSE]

RepeatIdle ==
    /\ repContent = <<>>
    /\ repChunk = NoChunk
    /\ repFirst = [ok |-> FALSE]
    /\ repSecond = [ok |-> FALSE]
    /\ repPc = "idle"

ParseIdle ==
    /\ patch = <<>>
    /\ pLines = <<>>
    /\ pIndex = 0
    /\ hunks = <<>>
    /\ pPc = "idle"
    /\ pErr = NoError
    /\ uStart = 0
    /\ uPath = <<>>
    /\ uMove = None
    /\ uChunks = <<>>
    /\ uIndex = 0

ApplyIdle ==
    /\ fs = <<>>
    /\ fsStart = <<>>
    /\ fsBefore = <<>>
    /\ ops = <<>>
    /\ nDone = 0
    /\ affectedFiles = <<>>
    /\ appPc = "idle"
    /\ appErr = NoError

InitSeek ==
    /\ haystack \in SeqsUpTo(FileLine, MaxFileLines)
    /\ needle \in Pattern
    /\ fromIndex \in 0..Len(haystack)
    /\ found = Null
    /\ seekPc = "call"
    /\ UpdateIdle
    /\ RepeatIdle
    /\ ParseIdle
    /\ ApplyIdle

Seek ==
    /\ seekPc = "call"
    /\ found' = seekSequence(haystack, needle, fromIndex)
    /\ seekPc' = "returned"
    /\ UNCHANGED <<haystack, needle, fromIndex, notSeek>>

NextSeek == Seek

SpecSeek == InitSeek /\ [][NextSeek]_vars

(***************************************************************************)
(* SpecUpdate: one run of applyUpdateChunks on an existing file, the chunk *)
(* loop taken one iteration per step.                                      *)
(***************************************************************************)
InitUpdate ==
    /\ content \in FileText
    /\ lines = <<>>
    /\ origLines = <<>>
    /\ spliced = <<>>
    /\ searchStart = 0
    /\ replacements = <<>>
    /\ matched = <<>>
    /\ nChunks = 0
    /\ updPc = "read"
    /\ updOut = <<>>
    /\ SeekIdle
    /\ RepeatIdle
    /\ ParseIdle
    /\ ApplyIdle

\* readFile, split, and the removal of the trailing empty line.
ReadFile ==
    /\ updPc = "read"
    /\ lines' = readLines(content)
    /\ origLines' = readLines(content)
    /\ updPc' = "chunks"
    /\ UNCHANGED <<content, spliced, searchStart, replacements, matched, nChunks,
                   updOut, notUpd>>

\* One iteration of the chunk loop: a replacement is pushed and the cursor moved,
\* or the match error is thrown.
ProcessChunk ==
    /\ updPc = "chunks"
    /\ nChunks < MaxChunks
    /\ \E chunk \in Chunk :
          LET r == chunkStep(lines, searchStart, chunk)
          IN  IF r.ok
              THEN /\ searchStart' = r.searchStart
                   /\ replacements' = Append(replacements, r.push)
                   /\ matched' = IF r.isMatch
                                 THEN Append(matched, [start  |-> r.push.start,
                                                       length |-> r.push.length])
                                 ELSE matched
                   /\ nChunks' = nChunks + 1
                   /\ UNCHANGED <<updPc, updOut>>
              ELSE /\ updPc' = "error"
                   /\ updOut' = r.error
                   /\ UNCHANGED <<searchStart, replacements, matched, nChunks>>
    /\ UNCHANGED <<content, lines, origLines, spliced, notUpd>>

\* The end of the chunk list (an update holds at least one chunk): the sort, the
\* splices, the trailing empty element, the join.
FinishUpdate ==
    /\ updPc = "chunks"
    /\ nChunks >= 1
    /\ spliced' = spliceAll(lines, sortDesc(replacements))
    /\ lines' = ensureTrailing(spliceAll(lines, sortDesc(replacements)))
    /\ updOut' = Join(ensureTrailing(spliceAll(lines, sortDesc(replacements))))
    /\ updPc' = "done"
    /\ UNCHANGED <<content, origLines, searchStart, replacements, matched, nChunks,
                   notUpd>>

NextUpdate ==
    \/ ReadFile
    \/ ProcessChunk
    \/ FinishUpdate

SpecUpdate == InitUpdate /\ [][NextUpdate]_vars

(***************************************************************************)
(* Claims about seekSequence (SpecSeek).                                   *)
(***************************************************************************)
\* Pattern line and file line are equal, as they are or after trimming both.
LineMatches(fileLine, patternLine) ==
    \/ fileLine = patternLine
    \/ Trim(fileLine) = Trim(patternLine)

\* The positions from fromIndex on at which the whole needle lies in the haystack.
SeekCandidates ==
    {i \in fromIndex..(Len(haystack) - Len(needle)) :
        \A j \in 1..Len(needle) : LineMatches(haystack[i + j], needle[j])}

SetMin(S) == CHOOSE m \in S : \A n \in S : m <= n

\* C6: seekSequence returns start for an empty pattern; otherwise the smallest
\* index i, start <= i <= len(lines) - len(pattern), at which every pattern line
\* equals the file line exactly or after trimming both, and null exactly when
\* there is no such index.
C6_SeekReturnsSmallestMatch ==
    seekPc = "returned" =>
        found = IF Len(needle) = 0 THEN fromIndex
                ELSE IF SeekCandidates = {} THEN Null
                ELSE SetMin(SeekCandidates)

\* A match that lies behind the start, found by the trimmed pass only.
C6_Witness ==
    /\ seekPc = "returned"
    /\ Len(needle) >= 1
    /\ found # Null
    /\ found > fromIndex
    /\ ~ExactAt(haystack, needle, found)

(***************************************************************************)
(* Claims about applyUpdateChunks (SpecUpdate).                            *)
(***************************************************************************)
\* ls with every span of rs (ascending, disjoint) replaced at once, each at the
\* position it has in ls; pos is the end of the span before rs[k].
RECURSIVE ReplacedAtOnce(_, _, _, _)
ReplacedAtOnce(ls, rs, k, pos) ==
    IF k > Len(rs) THEN SubSeq(ls, pos + 1, Len(ls))
    ELSE SubSeq(ls, pos + 1, rs[k].start) \o rs[k].newLines
         \o ReplacedAtOnce(ls, rs, k + 1, rs[k].start + rs[k].length)

\* Every chunk of the update had a non-empty pattern, and it was found.
AllNonEmptyMatches ==
    /\ updPc = "done"
    /\ \A k \in 1..Len(replacements) : replacements[k].length > 0

\* C1: when every chunk has a non-empty pattern that is found, the queued spans
\* are pairwise disjoint and ascending in chunk order, and the buffer the splice
\* loop leaves is the original line sequence with every span replaced by its
\* chunk's replacement lines, as if all were replaced at once.
C1_EditsLandAtOriginalOffsets ==
    AllNonEmptyMatches =>
        /\ \A k \in 1..(Len(replacements) - 1) :
              replacements[k].start + replacements[k].length
                  <= replacements[k + 1].start
        /\ \A k \in 1..Len(replacements) :
              replacements[k].start + replacements[k].length <= Len(origLines)
        /\ spliced = ReplacedAtOnce(origLines, replacements, 1, 0)

\* Two edits in one update, the first of which changes the number of lines.
C1_Witness ==
    /\ AllNonEmptyMatches
    /\ Len(replacements) = 2
    /\ Len(replacements[1].newLines) # replacements[1].length
    /\ replacements[2].newLines # <<>>

\* The text ends with a newline and with no second one before it.
EndsWithOneNewline(text) ==
    /\ Len(text) >= 1
    /\ text[Len(text)] = NL
    /\ (Len(text) >= 2 => text[Len(text) - 1] # NL)

SpansInOrder ==
    \A k \in 1..(Len(matched) - 1) :
        matched[k].start + matched[k].length <= matched[k + 1].start

\* C7: within one update the search cursor never decreases, stays within
\* 0..len(original lines), and no chunk's matched span starts before the end of
\* the matched span of the chunk before it.
CursorInRange ==
    /\ 0 <= searchStart
    /\ searchStart <= Len(origLines)
    /\ SpansInOrder

C7_CursorOnlyAdvances ==
    /\ CursorInRange
    /\ [][searchStart' >= searchStart /\ CursorInRange']_vars

\* A match, then a pure insertion whose context hint moved the cursor on.
C7_Witness ==
    /\ updPc = "chunks"
    /\ Len(matched) = 1
    /\ Len(replacements) = 2
    /\ replacements[1].length > 0
    /\ searchStart > matched[1].start + matched[1].length

(***************************************************************************)
(* SpecRepeat: an update of one chunk applied to a file, and applied again *)
(* to the file the first application wrote.                                *)
(***************************************************************************)
\* oldLines and newLines of the chunks applied twice.
RepeatLines ==
    {<<>>, <<<<"a">>>>, <<<<"b">>>>, <<<<>>>>, <<<<"a">>, <<>>>>, <<<<"a">>, <<"b">>>>,
     <<<<"b">>, <<"a">>>>}

RepeatChunk ==
    [changeContext : {None, Some(<<"a">>)},
     oldLines      : RepeatLines,
     newLines      : RepeatLines,
     isEndOfFile   : BOOLEAN]

InitRepeat ==
    /\ repContent \in FileText
    /\ repChunk \in RepeatChunk
    /\ repFirst = [ok |-> FALSE]
    /\ repSecond = [ok |-> FALSE]
    /\ repPc = "first"
    /\ SeekIdle
    /\ UpdateIdle
    /\ ParseIdle
    /\ ApplyIdle

\* The update applied to the file as it was.
ApplyFirst ==
    /\ repPc = "first"
    /\ repFirst' = applyUpdateChunks(repContent, <<repChunk>>)
    /\ repPc' = IF applyUpdateChunks(repContent, <<repChunk>>).ok
                THEN "second" ELSE "failed"
    /\ UNCHANGED <<repContent, repChunk, repSecond, notRep>>

\* The same update applied to the file the first application wrote.
ApplySecond ==
    /\ repPc = "second"
    /\ repSecond' = applyUpdateChunks(repFirst.text, <<repChunk>>)
    /\ repPc' = "done"
    /\ UNCHANGED <<repContent, repChunk, repFirst, notRep>>

NextRepeat ==
    \/ ApplyFirst
    \/ ApplySecond

SpecRepeat == InitRepeat /\ [][NextRepeat]_vars

(***************************************************************************)
(* Claims about an update applied once and twice (SpecRepeat).             *)
(***************************************************************************)
RECURSIVE StripTrailingNewlines(_)
StripTrailingNewlines(text) ==
    IF Len(text) > 0 /\ text[Len(text)] = NL
    THEN StripTrailingNewlines(SubSeq(text, 1, Len(text) - 1))
    ELSE text

\* The two texts differ at most in the newlines they end with.
SameUpToTrailingNewlines(t1, t2) ==
    StripTrailingNewlines(t1) = StripTrailingNewlines(t2)

\* The first application succeeded with a chunk whose oldLines equal its newLines.
RoundTripApplied ==
    /\ repPc \in {"second", "done"}
    /\ repChunk.oldLines = repChunk.newLines

\* The lines the chunk's pattern was matched against are the pattern's own lines.
RepeatMatchedExactly ==
    LET ls == readLines(repContent)
        r  == chunkStep(ls, 0, repChunk)
    IN  r.ok /\ \A j \in 1..r.push.length :
                    ls[r.push.start + j] = chunkPattern(repChunk)[j]

\* C4 as stated: an update whose chunk has oldLines equal to newLines, and whose
\* pattern is found, leaves the file content byte-identical except for the
\* newlines it ends with.
C4_AsStated ==
    RoundTripApplied => SameUpToTrailingNewlines(repFirst.text, repContent)

\* C4, amended: the same, for a pattern found at lines that equal it exactly,
\* not only after trimming.
C4_RoundTripOnExactMatch ==
    (RoundTripApplied /\ RepeatMatchedExactly)
        => SameUpToTrailingNewlines(repFirst.text, repContent)

\* A two-line file whose first line is rewritten by itself.
C4_Witness ==
    /\ RoundTripApplied
    /\ RepeatMatchedExactly
    /\ Len(chunkPattern(repChunk)) > 0
    /\ Len(readLines(repContent)) = 2
    /\ repFirst.text # repContent

\* The update was applied twice, the first time with success, and its oldLines
\* differ from its newLines.
NonTrivialTwice ==
    /\ repPc = "done"
    /\ repChunk.oldLines # repChunk.newLines

\* C5 as stated: an update with oldLines different from newLines succeeds the
\* first time and fails the second time with a match error.  (Stated for the
\* chunks that have a pattern to look for, and for a first application that
\* succeeded.)
C5_AsStated ==
    (NonTrivialTwice /\ Len(chunkPattern(repChunk)) > 0) =>
        /\ ~repSecond.ok
        /\ repSecond.error.kind = "match"

\* The pattern of the chunk occurs (exactly or trimmed, line by line) in ls at
\* or behind the cursor the chunk's context hint leaves.
PatternOccursFromCursor(ls, chunk) ==
    \E i \in afterContext(ls, chunk, 0)..(Len(ls) - Len(chunkPattern(chunk))) :
        \A j \in 1..Len(chunkPattern(chunk)) :
            LineMatches(ls[i + j], chunkPattern(chunk)[j])

\* C5, amended: when the first application succeeds, the second fails, with the
\* match error, exactly when the chunk has oldLines and its pattern no longer
\* occurs from the cursor on in the file the first application wrote.
C5_SecondFailsIffPatternGone ==
    NonTrivialTwice =>
        /\ ~repSecond.ok <=>
              /\ Len(repChunk.oldLines) > 0
              /\ ~PatternOccursFromCursor(readLines(repFirst.text), repChunk)
        /\ ~repSecond.ok => repSecond.error = matchError(chunkPattern(repChunk))

\* A replacement of a line that the second application does not find again.
C5_Witness ==
    /\ NonTrivialTwice
    /\ Len(chunkPattern(repChunk)) > 0
    /\ ~repSecond.ok

(***************************************************************************)
(* parsePatch, parseOneHunk, parseUpdateFileChunk                          *)
(***************************************************************************)
BEGIN_PATCH_MARKER ==
    <<"*","*","*"," ","B","e","g","i","n"," ","P","a","t","c","h">>
END_PATCH_MARKER ==
    <<"*","*","*"," ","E","n","d"," ","P","a","t","c","h">>
ADD_FILE_MARKER ==
    <<"*","*","*"," ","A","d","d"," ","F","i","l","e",":"," ">>
DELETE_FILE_MARKER ==
    <<"*","*","*"," ","D","e","l","e","t","e"," ","F","i","l","e",":"," ">>
UPDATE_FILE_MARKER ==
    <<"*","*","*"," ","U","p","d","a","t","e"," ","F","i","l","e",":"," ">>
MOVE_TO_MARKER ==
    <<"*","*","*"," ","M","o","v","e"," ","t","o",":"," ">>
EOF_MARKER ==
    <<"*","*","*"," ","E","n","d"," ","o","f"," ","F","i","l","e">>
CHANGE_CONTEXT_MARKER ==
    <<"@","@"," ">>
EMPTY_CHANGE_CONTEXT_MARKER ==
    <<"@","@">>
\* The literals '***' and '@@' of the two parsers' loops.
TopLevelPrefix == <<"*","*","*">>
ContextPrefix  == <<"@","@">>

TooShortMessage ==
    <<"P","a","t","c","h"," ","m","u","s","t"," ","h","a","v","e"," ","a",
      "t"," ","l","e","a","s","t"," ","b","e","g","i","n"," ","a","n","d",
      " ","e","n","d"," ","m","a","r","k","e","r","s">>
FirstLineMessage ==
    <<"T","h","e"," ","f","i","r","s","t"," ","l","i","n","e"," ","o","f",
      " ","t","h","e"," ","p","a","t","c","h"," ","m","u","s","t"," ","b",
      "e"," ","'","*","*","*"," ","B","e","g","i","n"," ","P","a","t","c",
      "h","'">>
LastLineMessage ==
    <<"T","h","e"," ","l","a","s","t"," ","l","i","n","e"," ","o","f"," ",
      "t","h","e"," ","p","a","t","c","h"," ","m","u","s","t"," ","b","e",
      " ","'","*","*","*"," ","E","n","d"," ","P","a","t","c","h","'">>
InvalidHunkHeaderPrefix ==
    <<"I","n","v","a","l","i","d"," ","h","u","n","k"," ","h","e","a","d",
      "e","r",":"," ","'">>
UnexpectedLinePrefix ==
    <<"U","n","e","x","p","e","c","t","e","d"," ","l","i","n","e"," ","i",
      "n"," ","u","p","d","a","t","e"," ","h","u","n","k",":"," ","'">>
EmptyUpdatePrefix ==
    <<"U","p","d","a","t","e"," ","f","i","l","e"," ","h","u","n","k"," ",
      "f","o","r"," ","p","a","t","h"," ","'">>
EmptyUpdateSuffix ==
    <<"'"," ","i","s"," ","e","m","p","t","y">>

envelopeError(message) == [kind |-> "envelope", message |-> message]
headerError(line) ==
    [kind |-> "header", message |-> InvalidHunkHeaderPrefix \o line \o <<"'">>]
emptyUpdateError(filePath) ==
    [kind |-> "emptyUpdate",
     message |-> EmptyUpdatePrefix \o filePath \o EmptyUpdateSuffix]
chunkBodyError(line) ==
    [kind |-> "chunkBody", message |-> UnexpectedLinePrefix \o line \o <<"'">>]

\* A header line taken as it stands in the patch.
hunkHeaderLineRaw(ls, startIndex) == ls[startIndex + 1]

\* const line = lines[startIndex].trim()
hunkHeaderLine(ls, startIndex) == Trim(ls[startIndex + 1])

\* The while loop of the add branch: the contents, and the index it stops at.
RECURSIVE addLoop(_, _, _)
addLoop(ls, i, contents) ==
    IF i < Len(ls) /\ StartsWith(ls[i + 1], <<"+">>)
    THEN addLoop(ls, i + 1, contents \o Substring(ls[i + 1], 1) \o <<NL>>)
    ELSE [contents |-> contents, i |-> i]

\* Parse context marker: the context and the index behind the marker.
chunkContext(ls, i) ==
    IF ls[i + 1] = EMPTY_CHANGE_CONTEXT_MARKER
    THEN [changeContext |-> None, i |-> i + 1]
    ELSE IF StartsWith(ls[i + 1], CHANGE_CONTEXT_MARKER)
    THEN [changeContext |-> Some(Substring(ls[i + 1], Len(CHANGE_CONTEXT_MARKER))),
          i |-> i + 1]
    ELSE [changeContext |-> None, i |-> i]

\* The while loop of parseUpdateFileChunk: the chunk and the index it stops at,
\* or the error thrown.
RECURSIVE chunkBody(_, _, _, _)
chunkBody(ls, i, chunk, hasContent) ==
    IF ~(i < Len(ls)) THEN [ok |-> TRUE, chunk |-> chunk, i |-> i]
    ELSE
      LET line    == ls[i + 1]
          rest    == Substring(line, 1)
      IN  IF line = EOF_MARKER
          THEN [ok |-> TRUE, chunk |-> [chunk EXCEPT !.isEndOfFile = TRUE],
                i |-> i + 1]
          ELSE IF StartsWith(line, TopLevelPrefix) \/ StartsWith(line, ContextPrefix)
          THEN [ok |-> TRUE, chunk |-> chunk, i |-> i]
          ELSE IF Len(line) > 0 /\ line[1] = " "
          THEN chunkBody(ls, i + 1,
                         [chunk EXCEPT !.oldLines = Append(@, rest),
                                       !.newLines = Append(@, rest)], TRUE)
          ELSE IF Len(line) > 0 /\ line[1] = "-"
          THEN chunkBody(ls, i + 1,
                         [chunk EXCEPT !.oldLines = Append(@, rest)], TRUE)
          ELSE IF Len(line) > 0 /\ line[1] = "+"
          THEN chunkBody(ls, i + 1,
                         [chunk EXCEPT !.newLines = Append(@, rest)], TRUE)
          ELSE IF Trim(line) = <<>>
          THEN chunkBody(ls, i + 1,
                         [chunk EXCEPT !.oldLines = Append(@, <<>>),
                                       !.newLines = Append(@, <<>>)], TRUE)
          ELSE IF ~hasContent
          THEN [ok |-> FALSE, error |-> chunkBodyError(line)]
          ELSE [ok |-> TRUE, chunk |-> chunk, i |-> i]

\* parseUpdateFileChunk: [chunk, i - startIndex], or the error thrown.
parseUpdateFileChunk(ls, startIndex) ==
    LET c == chunkContext(ls, startIndex)
        r == chunkBody(ls, c.i,
                       [changeContext |-> c.changeContext, oldLines |-> <<>>,
                        newLines |-> <<>>, isEndOfFile |-> FALSE],
                       FALSE)
    IN  IF r.ok
        THEN [ok |-> TRUE, chunk |-> r.chunk, consumed |-> r.i - startIndex]
        ELSE r

(***************************************************************************)
(* SpecParse: parsePatch on the patch texts below, one call of a parser or *)
(* one loop iteration per step.                                            *)
(***************************************************************************)
MaxBody == 3           \* lines between the two markers of a modelled patch

\* The lines the bodies of the modelled patches are made of.
PatchLine ==
    {ADD_FILE_MARKER \o <<"a">>,
     <<"+", "x">>,
     DELETE_FILE_MARKER \o <<"a">>,
     <<" ">> \o DELETE_FILE_MARKER \o <<"b">>,
     UPDATE_FILE_MARKER \o <<"a">>,
     MOVE_TO_MARKER \o <<"b">>,
     <<"@", "@">>,
     <<"@", "@", " ", "x">>,
     <<"@", "@", "x">>,
     <<"-", "x">>,
     <<" ", "y">>,
     <<>>,
     EOF_MARKER,
     <<"x">>}

\* Patches with both markers, and, for the shortest bodies, patches whose
\* envelope is surrounded by whitespace or lacks a marker.
PatchText ==
    {Join(<<BEGIN_PATCH_MARKER>> \o body \o <<END_PATCH_MARKER>>) :
        body \in SeqsUpTo(PatchLine, MaxBody)}
    \cup {<<" ", NL>> \o Join(<<BEGIN_PATCH_MARKER>> \o body \o <<END_PATCH_MARKER>>)
              \o <<NL, NL>> : body \in SeqsUpTo(PatchLine, 1)}
    \cup {Join(<<BEGIN_PATCH_MARKER>> \o body) : body \in SeqsUpTo(PatchLine, 1)}
    \cup {Join(body \o <<END_PATCH_MARKER>>) : body \in SeqsUpTo(PatchLine, 1)}

InitParse ==
    /\ patch \in PatchText
    /\ pLines = <<>>
    /\ pIndex = 0
    /\ hunks = <<>>
    /\ pPc = "start"
    /\ pErr = NoError
    /\ uStart = 0
    /\ uPath = <<>>
    /\ uMove = None
    /\ uChunks = <<>>
    /\ uIndex = 0
    /\ SeekIdle
    /\ UpdateIdle
    /\ RepeatIdle
    /\ ApplyIdle

\* parsePatch up to its while loop: trim, split, and the three envelope checks.
ParsePatch ==
    /\ pPc = "start"
    /\ LET ls == Split(Trim(patch))
       IN  /\ pLines' = ls
           /\ IF Len(ls) < 2
              THEN pPc' = "error" /\ pErr' = envelopeError(TooShortMessage)
              ELSE IF ls[1] # BEGIN_PATCH_MARKER
              THEN pPc' = "error" /\ pErr' = envelopeError(FirstLineMessage)
              ELSE IF ls[Len(ls)] # END_PATCH_MARKER
              THEN pPc' = "error" /\ pErr' = envelopeError(LastLineMessage)
              ELSE pPc' = "envelope" /\ pErr' = pErr
    /\ pIndex' = 1
    /\ UNCHANGED <<patch, hunks, uStart, uPath, uMove, uChunks, uIndex, notParse>>

\* while (i < lines.length - 1) of parsePatch
InEnvelopeLoop ==
    /\ pPc = "envelope"
    /\ pIndex < Len(pLines) - 1

\* parseOneHunk, add branch, and the push and the advance of parsePatch.
ParseAddHunk ==
    /\ InEnvelopeLoop
    /\ LET line == hunkHeaderLine(pLines, pIndex)
           r    == addLoop(pLines, pIndex + 1, <<>>)
       IN  /\ StartsWith(line, ADD_FILE_MARKER)
           /\ hunks' = Append(hunks, [type |-> "add",
                                      path |-> Substring(line, Len(ADD_FILE_MARKER)),
                                      contents |-> r.contents])
           /\ pIndex' = pIndex + (r.i - pIndex)
    /\ UNCHANGED <<patch, pLines, pPc, pErr, uStart, uPath, uMove, uChunks, uIndex,
                   notParse>>

\* parseOneHunk, delete branch, and the push and the advance of parsePatch.
ParseDeleteHunk ==
    /\ InEnvelopeLoop
    /\ LET line == hunkHeaderLine(pLines, pIndex)
       IN  /\ ~StartsWith(line, ADD_FILE_MARKER)
           /\ StartsWith(line, DELETE_FILE_MARKER)
           /\ hunks' = Append(hunks, [type |-> "delete",
                                      path |-> Substring(line, Len(DELETE_FILE_MARKER))])
           /\ pIndex' = pIndex + 1
    /\ UNCHANGED <<patch, pLines, pPc, pErr, uStart, uPath, uMove, uChunks, uIndex,
                   notParse>>

\* parseOneHunk, update branch, up to its while loop: the path and the move
\* directive.
EnterUpdateHunk ==
    /\ InEnvelopeLoop
    /\ LET line == hunkHeaderLine(pLines, pIndex)
           i    == pIndex + 1
           move == i < Len(pLines) /\ StartsWith(pLines[i + 1], MOVE_TO_MARKER)
       IN  /\ ~StartsWith(line, ADD_FILE_MARKER)
           /\ ~StartsWith(line, DELETE_FILE_MARKER)
           /\ StartsWith(line, UPDATE_FILE_MARKER)
           /\ uPath' = Substring(line, Len(UPDATE_FILE_MARKER))
           /\ uMove' = IF move
                       THEN Some(Substring(pLines[i + 1], Len(MOVE_TO_MARKER)))
                       ELSE None
           /\ uIndex' = IF move THEN i + 1 ELSE i
    /\ uStart' = pIndex
    /\ uChunks' = <<>>
    /\ pPc' = "update"
    /\ UNCHANGED <<patch, pLines, pIndex, hunks, pErr, notParse>>

\* parseOneHunk, no branch taken: the header error.
InvalidHunkHeader ==
    /\ InEnvelopeLoop
    /\ LET line == hunkHeaderLine(pLines, pIndex)
       IN  /\ ~StartsWith(line, ADD_FILE_MARKER)
           /\ ~StartsWith(line, DELETE_FILE_MARKER)
           /\ ~StartsWith(line, UPDATE_FILE_MARKER)
           /\ pErr' = headerError(line)
    /\ pPc' = "error"
    /\ UNCHANGED <<patch, pLines, pIndex, hunks, uStart, uPath, uMove, uChunks,
                   uIndex, notParse>>

\* while (i < lines.length && !lines[i].startsWith('***')) of parseOneHunk
InUpdateLoop ==
    /\ pPc = "update"
    /\ uIndex < Len(pLines)
    /\ ~StartsWith(pLines[uIndex + 1], TopLevelPrefix)

\* The update loop on a blank line.
SkipBlankLine ==
    /\ InUpdateLoop
    /\ Trim(pLines[uIndex + 1]) = <<>>
    /\ uIndex' = uIndex + 1
    /\ UNCHANGED <<patch, pLines, pIndex, hunks, pPc, pErr, uStart, uPath, uMove,
                   uChunks, notParse>>

\* The update loop on any other line: parseUpdateFileChunk, the push and the
\* advance.  (A loop that pushes without advancing is cut off once it has pushed
\* more chunks than the patch has lines.)
ParseChunk ==
    /\ InUpdateLoop
    /\ Trim(pLines[uIndex + 1]) # <<>>
    /\ Len(uChunks) <= Len(pLines)
    /\ LET r == parseUpdateFileChunk(pLines, uIndex)
       IN  IF r.ok
           THEN /\ uChunks' = Append(uChunks, r.chunk)
                /\ uIndex' = uIndex + r.consumed
                /\ UNCHANGED <<pPc, pErr>>
           ELSE /\ pPc' = "error"
                /\ pErr' = r.error
                /\ UNCHANGED <<uChunks, uIndex>>
    /\ UNCHANGED <<patch, pLines, pIndex, hunks, uStart, uPath, uMove, notParse>>

\* The end of the update loop: the empty-update error, or the hunk returned,
\* pushed, and the advance of parsePatch.
EndUpdateHunk ==
    /\ pPc = "update"
    /\ ~InUpdateLoop
    /\ IF Len(uChunks) = 0
       THEN /\ pPc' = "error"
            /\ pErr' = emptyUpdateError(uPath)
            /\ UNCHANGED <<hunks, pIndex>>
       ELSE /\ hunks' = Append(hunks, [type |-> "update", path |-> uPath,
                                       movePath |-> uMove, chunks |-> uChunks])
            /\ pIndex' = pIndex + (uIndex - uStart)
            /\ pPc' = "envelope"
            /\ UNCHANGED pErr
    /\ UNCHANGED <<patch, pLines, uStart, uPath, uMove, uChunks, uIndex, notParse>>

\* return hunks
ReturnHunks ==
    /\ pPc = "envelope"
    /\ ~(pIndex < Len(pLines) - 1)
    /\ pPc' = "done"
    /\ UNCHANGED <<patch, pLines, pIndex, hunks, pErr, uStart, uPath, uMove,
                   uChunks, uIndex, notParse>>

NextParse ==
    \/ ParsePatch
    \/ ParseAddHunk
    \/ ParseDeleteHunk
    \/ EnterUpdateHunk
    \/ InvalidHunkHeader
    \/ SkipBlankLine
    \/ ParseChunk
    \/ EndUpdateHunk
    \/ ReturnHunks

SpecParse == InitParse /\ [][NextParse]_vars

(***************************************************************************)
(* Claims about parsePatch (SpecParse).                                    *)
(***************************************************************************)
BeginsWithNoMarker(line) ==
    /\ ~StartsWith(line, ADD_FILE_MARKER)
    /\ ~StartsWith(line, DELETE_FILE_MARKER)
    /\ ~StartsWith(line, UPDATE_FILE_MARKER)

\* The step taken on a hunk-start line is the dispatch its marker asks for.
DispatchedAs(line) ==
    IF StartsWith(line, ADD_FILE_MARKER)
    THEN hunks' = Append(hunks, hunks'[Len(hunks')]) /\ hunks'[Len(hunks')].type = "add"
    ELSE IF StartsWith(line, DELETE_FILE_MARKER)
    THEN hunks' = Append(hunks, hunks'[Len(hunks')]) /\ hunks'[Len(hunks')].type = "delete"
    ELSE pPc' = "update" /\ uPath' = Substring(line, Len(UPDATE_FILE_MARKER))

\* C8 as stated: a hunk-start line that begins with none of the three markers
\* makes parsePatch fail with "Invalid hunk header: '<line>'", <line> being the
\* raw line verbatim; a line that begins with a marker is dispatched.
C8_AsStated ==
    [][InEnvelopeLoop =>
          LET raw == pLines[pIndex + 1]
          IN  IF BeginsWithNoMarker(raw)
              THEN pPc' = "error" /\ pErr' = headerError(raw)
              ELSE DispatchedAs(raw)]_vars

\* C8, amended: a hunk-start line whose trimmed form begins with none of the
\* three markers makes parsePatch fail with "Invalid hunk header: '<line>'",
\* <line> being the line without its leading and trailing whitespace; a line
\* whose trimmed form begins with a marker is dispatched as that operation.
C8_HeaderErrorQuotesTrimmedLine ==
    [][InEnvelopeLoop =>
          LET trimmed == Trim(pLines[pIndex + 1])
          IN  IF BeginsWithNoMarker(trimmed)
              THEN pPc' = "error" /\ pErr' = headerError(trimmed)
              ELSE DispatchedAs(trimmed)]_vars

\* A header error on a line that has whitespace around it.
C8_Witness ==
    /\ pPc = "error"
    /\ pErr.kind = "header"
    /\ pLines[pIndex + 1] # Trim(pLines[pIndex + 1])
    /\ pErr.message = InvalidHunkHeaderPrefix \o Trim(pLines[pIndex + 1]) \o <<"'">>

\* C10: every call of the hunk parser and of the chunk parser consumes at least
\* one line: the line index of the envelope loop and that of the update loop
\* grow with every hunk and every chunk pushed.
C10_EveryParserCallConsumes ==
    [][/\ (pPc = "update" /\ uChunks' # uChunks) => uIndex' > uIndex
       /\ (pPc \in {"envelope", "update"} /\ hunks' # hunks) => pIndex' > pIndex]_vars

(***************************************************************************)
(* applyPatch                                                              *)
(***************************************************************************)
\* What the file system holds at a path that names no file.
NoFile == <<"ENOENT">>

\* The working directory of the modelled runs.
Cwd == <<"w">>

\* path.resolve(cwd, p) for a relative path p without '.' and '..' segments.
resolve(cwd, p) == cwd \o <<"/">> \o p

\* A failed fs.promises call, passed through.
fsError(fullPath) == [kind |-> "fs", message |-> NoFile \o <<" ">> \o fullPath]

\* The body of the for loop for one hunk, on the files as they are: the files
\* it leaves and the status it pushes, or the error it throws.  (The parent
\* directories mkdir creates are not modelled: every modelled path lies in cwd.)
handleHunk(files, hunk) ==
    LET fullPath == resolve(Cwd, hunk.path)
    IN  IF hunk.type = "add"
        THEN [ok |-> TRUE,
              fs |-> [files EXCEPT ![fullPath] = hunk.contents],
              status |-> <<"A", " ">> \o hunk.path]
        ELSE IF hunk.type = "delete"
        THEN IF files[fullPath] = NoFile
             THEN [ok |-> FALSE, error |-> fsError(fullPath)]
             ELSE [ok |-> TRUE,
                   fs |-> [files EXCEPT ![fullPath] = NoFile],
                   status |-> <<"D", " ">> \o hunk.path]
        ELSE IF files[fullPath] = NoFile
        THEN [ok |-> FALSE, error |-> fsError(fullPath)]
        ELSE
          LET r == applyUpdateChunks(files[fullPath], hunk.chunks)
          IN  IF ~r.ok THEN [ok |-> FALSE, error |-> r.error]
              ELSE IF Truthy(hunk.movePath)
              THEN LET newFullPath == resolve(Cwd, hunk.movePath[1])
                       written     == [files EXCEPT ![newFullPath] = r.text]
                   IN  [ok |-> TRUE,
                        fs |-> [written EXCEPT ![fullPath] = NoFile],
                        status |-> <<"M", " ">> \o hunk.movePath[1]]
              ELSE [ok |-> TRUE,
                    fs |-> [files EXCEPT ![fullPath] = r.text],
                    status |-> <<"M", " ">> \o hunk.path]

(***************************************************************************)
(* SpecApply: applyPatch on the hunks of a parsed patch, one hunk per step.*)
(***************************************************************************)
MaxOps == 2            \* hunks of a modelled patch

\* The relative paths of the modelled patches, and the files they resolve to.
Path     == {<<"a">>, <<"b">>}
FullPath == {resolve(Cwd, p) : p \in Path}

\* The chunk lists of the modelled update hunks: a replacement of line a by
\* line b, and a pure insertion of line b.
UpdateChunks ==
    {<<[changeContext |-> None, oldLines |-> <<<<"a">>>>, newLines |-> <<<<"b">>>>,
        isEndOfFile |-> FALSE]>>,
     <<[changeContext |-> None, oldLines |-> <<>>, newLines |-> <<<<"b">>>>,
        isEndOfFile |-> FALSE]>>}

\* Hunks as parsePatch returns them.  An update's movePath is undefined, a
\* path, or '' (the line "*** Move to: " with nothing behind it).
Hunk ==
    [type : {"add"}, path : Path, contents : {<<"b", NL>>}]
    \cup [type : {"delete"}, path : Path]
    \cup [type : {"update"}, path : Path,
          movePath : {None, Some(<<>>)} \cup {Some(p) : p \in Path},
          chunks : UpdateChunks]

InitApply ==
    /\ ops \in SeqsUpTo(Hunk, MaxOps)
    /\ fs \in [FullPath -> {NoFile, <<"a", NL>>, <<" ", "a">>}]
    /\ fsStart = fs
    /\ fsBefore = fs
    /\ nDone = 0
    /\ affectedFiles = <<>>
    /\ appPc = "run"
    /\ appErr = NoError
    /\ SeekIdle
    /\ UpdateIdle
    /\ RepeatIdle
    /\ ParseIdle

\* A loop that goes on to the next hunk when one fails.
ApplyHunkSkippingFailures ==
    /\ appPc = "run"
    /\ nDone < Len(ops)
    /\ LET r == handleHunk(fs, ops[nDone + 1])
       IN  IF r.ok
           THEN /\ fs' = r.fs
                /\ fsBefore' = fs
                /\ affectedFiles' = Append(affectedFiles, r.status)
                /\ UNCHANGED <<appPc, appErr>>
           ELSE /\ appErr' = r.error
                /\ UNCHANGED <<fs, fsBefore, affectedFiles, appPc>>
    /\ nDone' = nDone + 1
    /\ UNCHANGED <<fsStart, ops, notApp>>

\* One iteration of "for (const hunk of hunks)": the hunk's effect and status,
\* or the error that ends applyPatch.
ApplyHunk ==
    /\ appPc = "run"
    /\ nDone < Len(ops)
    /\ LET r == handleHunk(fs, ops[nDone + 1])
       IN  IF r.ok
           THEN /\ fs' = r.fs
                /\ fsBefore' = fs
                /\ affectedFiles' = Append(affectedFiles, r.status)
                /\ nDone' = nDone + 1
                /\ UNCHANGED <<appPc, appErr>>
           ELSE /\ appPc' = "failed"
                /\ appErr' = r.error
                /\ UNCHANGED <<fs, fsBefore, affectedFiles, nDone>>
    /\ UNCHANGED <<fsStart, ops, notApp>>

\* return affectedFiles
ReturnAffected ==
    /\ appPc = "run"
    /\ nDone = Len(ops)
    /\ appPc' = "done"
    /\ UNCHANGED <<fs, fsStart, fsBefore, ops, nDone, affectedFiles, appErr, notApp>>

NextApply ==
    \/ ApplyHunk
    \/ ReturnAffected

SpecApply == InitApply /\ [][NextApply]_vars

(***************************************************************************)
(* Claims about applyPatch (SpecApply).                                    *)
(***************************************************************************)
\* The files and the statuses after the first n hunks of hs, each applied to
\* what the one before left, from files f on; ok tells that none of them failed.
RECURSIVE InPatchOrder(_, _, _)
InPatchOrder(f, hs, n) ==
    IF n = 0 THEN [ok |-> TRUE, fs |-> f, statuses |-> <<>>]
    ELSE LET before == InPatchOrder(f, hs, n - 1)
             r      == handleHunk(before.fs, hs[n])
         IN  IF before.ok /\ r.ok
             THEN [ok |-> TRUE, fs |-> r.fs,
                   statuses |-> Append(before.statuses, r.status)]
             ELSE [ok |-> FALSE, fs |-> before.fs, statuses |-> before.statuses]

\* C2: applyPatch executes the hunks strictly in patch order; when hunk K fails,
\* the effects of hunks 1..K-1 are present and not rolled back, and no effect of
\* a hunk K+1.. is ever performed: in every state the files and the status list
\* are those the hunks handled with success leave, one after the other, and in
\* every state after a failure these are the hunks 1..K-1, hunk K being one that
\* fails on these files.
C2_NoRollbackNoLaterEffect ==
    /\ nDone <= Len(ops)
    /\ InPatchOrder(fsStart, ops, nDone).ok
    /\ fs = InPatchOrder(fsStart, ops, nDone).fs
    /\ affectedFiles = InPatchOrder(fsStart, ops, nDone).statuses
    /\ appPc = "failed" =>
          /\ nDone < Len(ops)
          /\ ~handleHunk(fs, ops[nDone + 1]).ok
          /\ appErr = handleHunk(fs, ops[nDone + 1]).error
    /\ appPc = "done" => nDone = Len(ops)

\* A patch whose second hunk fails after its first changed the files.
C2_Witness ==
    /\ appPc = "failed"
    /\ nDone = 1
    /\ Len(ops) = 2
    /\ fs # fsStart
    /\ appErr.kind = "match"

\* The last hunk handled with success is an update.
UpdateDone ==
    /\ nDone >= 1
    /\ ops[nDone].type = "update"

\* The text applyUpdateChunks returned for that update.
UpdatedContent ==
    applyUpdateChunks(fsBefore[resolve(Cwd, ops[nDone].path)], ops[nDone].chunks).text

\* C9: after a successful update that carries a movePath, the destination path
\* holds the updated content, the original path no longer exists, and the
\* status is "M <movePath>"; without a movePath the original path holds the
\* updated content and the status is "M <path>".  A movePath is carried when
\* hunk.movePath is truthy, as the code tests it.
C9_MoveLeavesContentAtDestination ==
    UpdateDone =>
        LET hunk == ops[nDone]
        IN  IF Truthy(hunk.movePath)
            THEN /\ resolve(Cwd, hunk.movePath[1]) \in DOMAIN fs
                 /\ fs[resolve(Cwd, hunk.movePath[1])] = UpdatedContent
                 /\ fs[resolve(Cwd, hunk.path)] = NoFile
                 /\ affectedFiles[nDone] = <<"M", " ">> \o hunk.movePath[1]
            ELSE /\ fs[resolve(Cwd, hunk.path)] = UpdatedContent
                 /\ affectedFiles[nDone] = <<"M", " ">> \o hunk.path

\* What holds of the code: the destination holds the updated content when the
\* movePath names another file than path.  A movePath equal to path leaves no
\* file at all.
UpdateMovesOrOverwrites ==
    UpdateDone =>
        LET hunk == ops[nDone]
        IN  IF Truthy(hunk.movePath)
            THEN /\ fs[resolve(Cwd, hunk.path)] = NoFile
                 /\ affectedFiles[nDone] = <<"M", " ">> \o hunk.movePath[1]
                 /\ hunk.movePath[1] # hunk.path
                       => fs[resolve(Cwd, hunk.movePath[1])] = UpdatedContent
            ELSE /\ fs[resolve(Cwd, hunk.path)] = UpdatedContent
                 /\ affectedFiles[nDone] = <<"M", " ">> \o hunk.path

(***************************************************************************)
(* SpecPatch: applyPatch on a patch text: parsePatch, step by step as in   *)
(* SpecParse, and then the for loop over the hunks it returned.            *)
(***************************************************************************)
\* The files of the modelled runs hold nothing or the line the modelled patches
\* delete.
InitPatch ==
    /\ patch \in PatchText
    /\ pLines = <<>>
    /\ pIndex = 0
    /\ hunks = <<>>
    /\ pPc = "start"
    /\ pErr = NoError
    /\ uStart = 0
    /\ uPath = <<>>
    /\ uMove = None
    /\ uChunks = <<>>
    /\ uIndex = 0
    /\ fs \in [FullPath -> {NoFile, <<"x", NL>>}]
    /\ fsStart = fs
    /\ fsBefore = fs
    /\ ops = <<>>
    /\ nDone = 0
    /\ affectedFiles = <<>>
    /\ appPc = "parse"
    /\ appErr = NoError
    /\ SeekIdle
    /\ UpdateIdle
    /\ RepeatIdle

\* An applyPatch that runs its loop on the hunks parsePatch had pushed when it
\* stopped, whether it returned or threw.
StartLoopOnHunksSoFar ==
    /\ appPc = "parse"
    /\ pPc \in {"done", "error"}
    /\ ops' = hunks
    /\ appPc' = "run"
    /\ UNCHANGED <<fs, fsStart, fsBefore, nDone, affectedFiles, appErr, notApp>>

\* const hunks = parsePatch(patch) has returned: affectedFiles = [] and the
\* for loop starts.
StartLoop ==
    /\ appPc = "parse"
    /\ pPc = "done"
    /\ ops' = hunks
    /\ appPc' = "run"
    /\ UNCHANGED <<fs, fsStart, fsBefore, nDone, affectedFiles, appErr, notApp>>

\* parsePatch(patch) has thrown: applyPatch has no try/catch and throws the
\* same error.
ThrowFormatError ==
    /\ appPc = "parse"
    /\ pPc = "error"
    /\ appPc' = "failed"
    /\ appErr' = pErr
    /\ UNCHANGED <<fs, fsStart, fsBefore, ops, nDone, affectedFiles, notApp>>

NextPatch ==
    \/ ParsePatch
    \/ ParseAddHunk
    \/ ParseDeleteHunk
    \/ EnterUpdateHunk
    \/ InvalidHunkHeader
    \/ SkipBlankLine
    \/ ParseChunk
    \/ EndUpdateHunk
    \/ ReturnHunks
    \/ StartLoop
    \/ ThrowFormatError
    \/ ApplyHunk
    \/ ReturnAffected

SpecPatch == InitPatch /\ [][NextPatch]_vars

(***************************************************************************)
(* Claims about applyPatch on a patch text (SpecPatch).                    *)
(***************************************************************************)
\* C11: applyPatch parses the whole patch text before any file system call: as
\* long as parsePatch has not returned, and for good when it threw a format
\* error, the files are those applyPatch found and no status is pushed, and a
\* format error is the error applyPatch fails with; a file is changed only
\* once parsePatch has returned all the hunks.
C11_FormatErrorLeavesFilesUnchanged ==
    /\ pPc # "done" =>
          /\ fs = fsStart
          /\ affectedFiles = <<>>
          /\ nDone = 0
          /\ appPc \in {"parse", "failed"}
    /\ (pPc = "error" /\ appPc = "failed") => appErr = pErr
    /\ (fs # fsStart \/ nDone > 0) => (pPc = "done" /\ ops = hunks)

\* A format error behind a well-formed hunk that would have changed the files.
C11_Witness ==
    /\ pPc = "error"
    /\ appPc = "failed"
    /\ Len(hunks) >= 1
    /\ handleHunk(fsStart, hunks[1]).ok
    /\ handleHunk(fsStart, hunks[1]).fs # fsStart
    /\ fs = fsStart

(***************************************************************************)
(* Claims about the pure insertions of applyUpdateChunks (SpecUpdate).     *)
(***************************************************************************)
\* The update is done and every pattern it searched for was non-empty, so that
\* its zero-length replacements are those of its chunks with empty oldLines.
DoneWithPlainChunks ==
    /\ updPc = "done"
    /\ \A k \in 1..Len(matched) : matched[k].length > 0

\* The replacements queued by the chunks with empty oldLines, and those queued
\* for the patterns found, both in chunk order.
PureInsertions == SelectSeq(replacements, LAMBDA r : r.length = 0)
FoundSpans     == SelectSeq(replacements, LAMBDA r : r.length > 0)

\* The newLines of rs one after the other, first to last and last to first.
RECURSIVE InChunkOrder(_)
InChunkOrder(rs) ==
    IF Len(rs) = 0 THEN <<>> ELSE rs[1].newLines \o InChunkOrder(Tail(rs))

RECURSIVE InReverseChunkOrder(_)
InReverseChunkOrder(rs) ==
    IF Len(rs) = 0 THEN <<>> ELSE InReverseChunkOrder(Tail(rs)) \o rs[1].newLines

\* C12: pure insertions always append: the newLines of every chunk with empty
\* oldLines are placed after all lines of the original content (as the found
\* spans leave them), and the lines of several such chunks stand in the buffer
\* in the order of their chunks.
C12_InsertionsAppendInChunkOrder ==
    DoneWithPlainChunks =>
        /\ \A k \in 1..Len(PureInsertions) : PureInsertions[k].start = Len(origLines)
        /\ spliced = ReplacedAtOnce(origLines, FoundSpans, 1, 0)
                         \o InChunkOrder(PureInsertions)

\* What holds of the code: the insertions stand after the original lines, the
\* lines of the last such chunk first.
InsertionsAppendInReverseChunkOrder ==
    DoneWithPlainChunks =>
        /\ \A k \in 1..Len(PureInsertions) : PureInsertions[k].start = Len(origLines)
        /\ spliced = ReplacedAtOnce(origLines, FoundSpans, 1, 0)
                         \o InReverseChunkOrder(PureInsertions)

====
